---- MODULE Spec2Model ----
(***************************************************************************)
(* Model of the SQLite-backed bank ledger of src/mainv2.py: the accounts   *)
(* and transactions tables (BankDatabase.create_tables), the connection's  *)
(* pending (uncommitted) view of them, and the BankAccount sessions with    *)
(* their cached balance.  Amounts are whole currency units.                 *)
(***************************************************************************)
EXTENDS Integers, Sequences, FiniteSets, TLC

\* ---------------------------------------------------------------- bounds
MaxRows == 2
MaxTime == 1
MaxAmount == 2
MaxBalance == 4

\* ---------------------------------------------------------------- inputs
Holders == {"Alice", "Bob"}
Banks == {"First Bank", "Second Bank"}
Details == {"Salary"}
Amounts == (0 - 1) .. MaxAmount
Sessions == {1, 2}
Faults == {"update", "insert", "commit"}

\* A nullable column holds Null or Some(v).
Null == << >>
Some(v) == << v >>

VARIABLES
    store,      \* the committed database file
    conn,       \* the database as the connection sees it (pending writes included)
    session,    \* the BankAccount objects: holder, bank, account_id, cached balance
    now,        \* CURRENT_TIMESTAMP, in seconds
    call,       \* the last call made on a BankAccount and its outcome
    applied     \* per account_id: signed sum of the amounts of the calls that returned True

vars == << store, conn, session, now, call, applied >>

AccountIds == 1 .. Cardinality(Holders)

\* ------------------------------------------------------------ the schema
EmptyDb ==
    [ accounts |-> << >>, transactions |-> << >>,
      seq_accounts |-> 0, seq_transactions |-> 0 ]

NoSession ==
    [ open |-> FALSE, account_holder |-> "", bank_name |-> "",
      account_id |-> 0, balance |-> 0 ]

NoCall ==
    [ op |-> "none", s |-> 0, amount |-> 0, detail |-> "", fault |-> "none",
      result |-> "None", before |-> 0, listing |-> << >> ]

\* INSERT INTO accounts (account_holder, bank_name, balance) VALUES (?, ?, ?)
InsertAccount(db, holder, bank, balance) ==
    [ db EXCEPT
        !.accounts = Append(@, [ account_id |-> db.seq_accounts + 1,
                                 account_holder |-> holder,
                                 bank_name |-> bank,
                                 balance |-> balance ]),
        !.seq_accounts = @ + 1 ]

\* The update without its WHERE clause: every account gets the balance.
UpdateBalance_AllRows(db, balance, id) ==
    [ db EXCEPT
        !.accounts = [ i \in DOMAIN @ |-> [ @[i] EXCEPT !.balance = balance ] ] ]

\* The update also rewrites balance_after in the account's transaction rows.
UpdateBalance_RewritesLog(db, balance, id) ==
    [ db EXCEPT
        !.accounts = [ i \in DOMAIN @ |->
                         IF @[i].account_id = id
                         THEN [ @[i] EXCEPT !.balance = balance ]
                         ELSE @[i] ],
        !.transactions = [ i \in DOMAIN @ |->
                         IF @[i].account_id = id
                         THEN [ @[i] EXCEPT !.balance_after = balance ]
                         ELSE @[i] ] ]

\* UPDATE accounts SET balance = ? WHERE account_id = ?
UpdateBalance(db, balance, id) ==
    [ db EXCEPT
        !.accounts = [ i \in DOMAIN @ |->
                         IF @[i].account_id = id
                         THEN [ @[i] EXCEPT !.balance = balance ]
                         ELSE @[i] ] ]

\* The insert of deposit copied into every caller: the action is always 'Deposit'.
InsertTransaction_AsDeposit(db, id, action, amount, detail, balance) ==
    [ db EXCEPT
        !.transactions = Append(@, [ transaction_id |-> db.seq_transactions + 1,
                                     account_id |-> id,
                                     action |-> "Deposit",
                                     amount |-> amount,
                                     source_or_reason |-> detail,
                                     balance_after |-> balance,
                                     transaction_date |-> now ]),
        !.seq_transactions = @ + 1 ]

\* INSERT INTO transactions (account_id, action, amount, source_or_reason, balance_after)
InsertTransaction(db, id, action, amount, detail, balance) ==
    [ db EXCEPT
        !.transactions = Append(@, [ transaction_id |-> db.seq_transactions + 1,
                                     account_id |-> id,
                                     action |-> action,
                                     amount |-> amount,
                                     source_or_reason |-> detail,
                                     balance_after |-> balance,
                                     transaction_date |-> now ]),
        !.seq_transactions = @ + 1 ]

\* The lookup compares the holder name with the wrong column.
SelectByHolder_ByBank(db, holder) ==
    SelectSeq(db.accounts, LAMBDA r : r.bank_name = holder)

\* SELECT account_id, balance FROM accounts WHERE account_holder = ?
SelectByHolder(db, holder) ==
    SelectSeq(db.accounts, LAMBDA r : r.account_holder = holder)

\* SELECT balance FROM accounts WHERE account_id = ?
SelectById(db, id) ==
    SelectSeq(db.accounts, LAMBDA r : r.account_id = id)

\* SELECT ... FROM transactions WHERE account_id = ?
SelectTransactions(db, id) ==
    SelectSeq(db.transactions, LAMBDA r : r.account_id = id)

\* ORDER BY transaction_date DESC: every arrangement of the rows whose dates
\* do not increase; the order of rows with equal dates is left to the engine.
OrderByDateDesc(rows) ==
    LET n == Len(rows)
        perms == { p \in [1 .. n -> 1 .. n] : \A i, j \in 1 .. n : i # j => p[i] # p[j] }
        sorted(p) == \A i \in 1 .. n - 1 :
                        rows[p[i]].transaction_date >= rows[p[i + 1]].transaction_date
    IN  { [ i \in 1 .. n |-> rows[p[i]] ] : p \in { q \in perms : sorted(q) } }

\* ------------------------------------------------------------ BankAccount
\* The validation lets a zero amount through.
amount_not_positive_strict(amount) == amount < 0

\* if amount <= 0: ... return False
amount_not_positive(amount) == amount <= 0

\* The sufficient-balance check left out, as in the first iteration.
insufficient_balance_off(balance, amount) == FALSE

\* The comparison off by one: a withdrawal of the whole balance is refused.
insufficient_balance_inclusive(balance, amount) == balance <= amount

\* if self.balance < amount: ... return False
insufficient_balance(balance, amount) == balance < amount

\* The refresh is skipped: the cached balance is used.
refreshed_balance_cached(result, cached) == cached

\* result = self.cursor.fetchone(); if result: self.balance = result[0]
refreshed_balance(result, cached) ==
    IF result # << >> THEN result[1].balance ELSE cached

Init ==
    /\ store = EmptyDb
    /\ conn = EmptyDb
    /\ session = [ s \in Sessions |-> NoSession ]
    /\ now = 0
    /\ call = NoCall
    /\ applied = [ a \in AccountIds |-> 0 ]

\* BankAccount.__init__ and create_or_retrieve_account
create_or_retrieve_account(s, holder, bank) ==
    LET result == SelectByHolder(conn, holder)
        created == InsertAccount(conn, holder, bank, 0)
    IN  /\ IF result # << >>
           THEN /\ session' = [ session EXCEPT ![s] =
                                  [ open |-> TRUE, account_holder |-> holder,
                                    bank_name |-> bank,
                                    account_id |-> result[1].account_id,
                                    balance |-> result[1].balance ] ]
                /\ UNCHANGED << store, conn >>
           ELSE /\ conn' = created
                /\ store' = created
                /\ session' = [ session EXCEPT ![s] =
                                  [ open |-> TRUE, account_holder |-> holder,
                                    bank_name |-> bank,
                                    account_id |-> created.seq_accounts,
                                    balance |-> 0 ] ]
        /\ call' = [ NoCall EXCEPT !.op = "open", !.s = s, !.detail = holder,
                                   !.before = session[s].balance ]
        /\ UNCHANGED << now, applied >>

\* The two writes and the commit of deposit and withdraw, stopped at the
\* statement that raises (fault), if any.
WriteBoth(s, action, amount, detail, balance, fault) ==
    LET id == session[s].account_id
        updated == UpdateBalance(conn, balance, id)
        inserted == InsertTransaction(updated, id, action, Some(amount), Some(detail), balance)
    IN  CASE fault = "update" -> UNCHANGED << store, conn >>
          [] fault = "insert" -> conn' = updated /\ UNCHANGED store
          [] fault = "commit" -> conn' = inserted /\ UNCHANGED store
          [] OTHER -> conn' = inserted /\ store' = inserted

Outcome(op, s, amount, detail, fault, result) ==
    [ NoCall EXCEPT !.op = op, !.s = s, !.amount = amount, !.detail = detail,
                    !.fault = fault, !.result = result,
                    !.before = session[s].balance ]

deposit(s, amount, source, fault) ==
    /\ session[s].open
    /\ IF amount_not_positive(amount)
       THEN /\ call' = Outcome("deposit", s, amount, source, "none", "False")
            /\ UNCHANGED << store, conn, session, applied >>
       ELSE LET balance == session[s].balance + amount
            IN  /\ session' = [ session EXCEPT ![s].balance = balance ]
                /\ WriteBoth(s, "Deposit", amount, source, balance, fault)
                /\ IF fault = "none"
                   THEN /\ call' = Outcome("deposit", s, amount, source, fault, "True")
                        /\ applied' = [ applied EXCEPT ![session[s].account_id] = @ + amount ]
                   ELSE /\ call' = Outcome("deposit", s, amount, source, fault, "raised")
                        /\ UNCHANGED applied
    /\ UNCHANGED now

withdraw(s, amount, reason, fault) ==
    /\ session[s].open
    /\ IF amount_not_positive(amount)
       THEN /\ call' = Outcome("withdraw", s, amount, reason, "none", "False")
            /\ UNCHANGED << store, conn, session, applied >>
       ELSE IF insufficient_balance(session[s].balance, amount)
       THEN /\ call' = Outcome("withdraw", s, amount, reason, "none", "False")
            /\ UNCHANGED << store, conn, session, applied >>
       ELSE LET balance == session[s].balance - amount
            IN  /\ session' = [ session EXCEPT ![s].balance = balance ]
                /\ WriteBoth(s, "Withdrawal", amount, reason, balance, fault)
                /\ IF fault = "none"
                   THEN /\ call' = Outcome("withdraw", s, amount, reason, fault, "True")
                        /\ applied' = [ applied EXCEPT ![session[s].account_id] = @ - amount ]
                   ELSE /\ call' = Outcome("withdraw", s, amount, reason, fault, "raised")
                        /\ UNCHANGED applied
    /\ UNCHANGED now

check_balance(s, fault) ==
    LET id == session[s].account_id
        result == SelectById(conn, id)
        balance == refreshed_balance(result, session[s].balance)
        inserted == InsertTransaction(conn, id, "Balance Check", Null, Null, balance)
    IN  /\ session[s].open
        /\ session' = [ session EXCEPT ![s].balance = balance ]
        /\ CASE fault = "insert" -> UNCHANGED << store, conn >>
             [] fault = "commit" -> conn' = inserted /\ UNCHANGED store
             [] OTHER -> conn' = inserted /\ store' = inserted
        /\ call' = Outcome("check_balance", s, 0, "", fault,
                           IF fault = "none" THEN "None" ELSE "raised")
        /\ UNCHANGED << now, applied >>

get_transaction_history(s) ==
    /\ session[s].open
    /\ \E transactions \in OrderByDateDesc(SelectTransactions(conn, session[s].account_id)) :
          call' = [ Outcome("get_transaction_history", s, 0, "", "none", "None")
                      EXCEPT !.listing = transactions ]
    /\ UNCHANGED << store, conn, session, now, applied >>

\* The process stops: the connection is closed without a commit, the
\* pending writes are rolled back and the BankAccount objects are gone.
Stop ==
    /\ conn' = store
    /\ session' = [ s \in Sessions |-> NoSession ]
    /\ call' = [ NoCall EXCEPT !.op = "stop" ]
    /\ UNCHANGED << store, now, applied >>

\* One second passes.
Tick ==
    /\ now < MaxTime
    /\ now' = now + 1
    /\ call' = [ NoCall EXCEPT !.op = "tick" ]
    /\ UNCHANGED << store, conn, session, applied >>

\* ---------------------------------------------------------- specifications
RoomForRow == Len(conn.transactions) < MaxRows

Open(S, H, B) ==
    \E s \in S, holder \in H, bank \in B :
        create_or_retrieve_account(s, holder, bank)

Deposit(S, F) ==
    \E s \in S, amount \in Amounts, source \in Details, fault \in F :
        /\ RoomForRow
        /\ session[s].balance + amount <= MaxBalance
        /\ deposit(s, amount, source, fault)

Withdraw(S, F) ==
    \E s \in S, amount \in Amounts, reason \in Details, fault \in F :
        /\ RoomForRow
        /\ withdraw(s, amount, reason, fault)

CheckBalance(S, F) ==
    \E s \in S, fault \in F :
        /\ RoomForRow
        /\ check_balance(s, fault)

History(S) ==
    \E s \in S : get_transaction_history(s)

\* One BankAccount at a time on one connection, no storage failure (main).
Next ==
    \/ Open({1}, Holders, Banks)
    \/ Deposit({1}, {"none"})
    \/ Withdraw({1}, {"none"})
    \/ CheckBalance({1}, {"none"})
    \/ History({1})
    \/ Tick

Spec == Init /\ [][Next]_vars

\* Two BankAccount objects of one holder on the same store, each call
\* running to completion.
NextTwo ==
    \/ Open(Sessions, {"Alice"}, {"First Bank"})
    \/ Deposit(Sessions, {"none"})
    \/ Withdraw(Sessions, {"none"})
    \/ CheckBalance(Sessions, {"none"})

SpecTwo == Init /\ [][NextTwo]_vars

\* One BankAccount whose storage may reject a write or a commit, and whose
\* process may stop.
NextFail ==
    \/ Open({1}, {"Alice"}, {"First Bank"})
    \/ Deposit({1}, Faults \cup {"none"})
    \/ Withdraw({1}, Faults \cup {"none"})
    \/ CheckBalance({1}, {"insert", "commit", "none"})
    \/ Stop

SpecFail == Init /\ [][NextFail]_vars

\* ------------------------------------------------------------ properties
RECURSIVE SignedSum(_)
\* Deposits add, withdrawals subtract, balance checks are neutral.
SignedSum(rows) ==
    IF rows = << >> THEN 0
    ELSE LET r == Head(rows)
         IN  (CASE r.action = "Deposit" -> r.amount[1]
                [] r.action = "Withdrawal" -> 0 - r.amount[1]
                [] OTHER -> 0) + SignedSum(Tail(rows))

StoredBalance(db, id) == SelectById(db, id)[1].balance

IsPrefix(a, b) == Len(a) <= Len(b) /\ SubSeq(b, 1, Len(a)) = a

ActionOf(op) ==
    CASE op = "deposit" -> "Deposit"
      [] op = "withdraw" -> "Withdrawal"
      [] OTHER -> "Balance Check"

\* C1: for every account, the stored balance equals the sum of the amounts of
\* the deposits that returned True minus the sum of the amounts of the
\* withdrawals that returned True; failed calls and balance checks add 0.
C1_BalanceIsAppliedSum ==
    \A i \in DOMAIN store.accounts :
        store.accounts[i].balance = applied[store.accounts[i].account_id]

C1_Witness ==
    /\ call.op = "withdraw" /\ call.result = "True"
    /\ Len(store.accounts) = 2
    /\ \E i \in DOMAIN store.accounts :
          /\ store.accounts[i].balance = 1
          /\ store.accounts[i].account_id = session[1].account_id

\* C2: a withdraw whose amount is above the account's stored balance returns
\* False and leaves the stored balance, the cached balance and the
\* transaction rows as they were.
C2_InsufficientFundsNoOp ==
    [][ ( /\ call'.op = "withdraw"
          /\ call'.amount > StoredBalance(store, session[call'.s].account_id) )
        => ( /\ call'.result = "False"
             /\ store' = store
             /\ conn' = conn
             /\ session' = session ) ]_vars

C2_Witness ==
    /\ call.op = "withdraw" /\ call.result = "False"
    /\ call.amount > call.before
    /\ call.before > 0
    /\ StoredBalance(store, session[call.s].account_id) = call.before

\* C3: a deposit or withdraw with amount <= 0 returns False and changes
\* neither the stored balance, nor the cached balance, nor the rows.
C3_InvalidAmountNoOp ==
    [][ ( /\ call'.op \in {"deposit", "withdraw"}
          /\ call'.amount <= 0 )
        => ( /\ call'.result = "False"
             /\ store' = store
             /\ conn' = conn
             /\ session' = session ) ]_vars

C3_Witness ==
    /\ call.op = "withdraw" /\ call.result = "False"
    /\ call.amount = 0
    /\ call.before > 0

\* C4: a successful deposit, withdraw or check_balance appends exactly one
\* transaction row, of the session's account and with the matching action,
\* whose balance_after is the account's stored balance right after the call;
\* every other call leaves the rows as they were.
C4_OneRowPerSuccess ==
    [][ IF \/ call'.op \in {"deposit", "withdraw"} /\ call'.result = "True"
           \/ call'.op = "check_balance"
        THEN LET rows == store'.transactions
                 id == session[call'.s].account_id
             IN  /\ Len(rows) = Len(store.transactions) + 1
                 /\ IsPrefix(store.transactions, rows)
                 /\ rows[Len(rows)].account_id = id
                 /\ rows[Len(rows)].action = ActionOf(call'.op)
                 /\ rows[Len(rows)].balance_after = StoredBalance(store', id)
        ELSE store'.transactions = store.transactions ]_vars

C4_Witness ==
    /\ call.op = "withdraw" /\ call.result = "True"
    /\ Len(store.transactions) = 2
    /\ store.transactions[2].action = "Withdrawal"
    /\ store.transactions[2].balance_after = 1

\* C5: no two account rows share a holder name; opening a holder that has a
\* row returns that row's account_id and its stored balance and adds no row;
\* opening a holder without a row adds exactly one row, for that holder.
C5_OneAccountPerHolder ==
    /\ [] ( \A i, j \in DOMAIN store.accounts :
               store.accounts[i].account_holder = store.accounts[j].account_holder
                  => i = j )
    /\ [][ call'.op = "open" =>
             LET found == SelectByHolder(store, call'.detail)
                 after == SelectByHolder(store', call'.detail)
             IN  /\ Len(after) = 1
                 /\ session'[call'.s].account_id = after[1].account_id
                 /\ session'[call'.s].balance = after[1].balance
                 /\ IF found # << >>
                    THEN store' = store /\ after = found
                    ELSE /\ Len(store'.accounts) = Len(store.accounts) + 1
                         /\ IsPrefix(store.accounts, store'.accounts) ]_vars

C5_Witness ==
    /\ call.op = "open"
    /\ session[1].balance > 0
    /\ Len(store.accounts) = 2
    /\ \E i \in DOMAIN store.accounts :
          /\ store.accounts[i].account_id = session[1].account_id
          /\ store.accounts[i].account_holder = session[1].account_holder
          /\ store.accounts[i].bank_name # session[1].bank_name

\* C6: the listing of get_transaction_history has non-increasing
\* transaction_date, and rows of equal transaction_date are in descending
\* transaction_id order.
C6_MostRecentFirst ==
    call.op = "get_transaction_history" =>
        \A i \in 1 .. Len(call.listing) - 1 :
            \/ call.listing[i].transaction_date > call.listing[i + 1].transaction_date
            \/ /\ call.listing[i].transaction_date = call.listing[i + 1].transaction_date
               /\ call.listing[i].transaction_id > call.listing[i + 1].transaction_id

\* C7: check_balance takes the balance from the accounts table, not from the
\* cache: it appends one 'Balance Check' row with amount and source_or_reason
\* null and balance_after the stored balance, leaves the accounts table as it
\* was, and leaves the cached balance equal to the stored balance.
C7_CheckBalanceReadsStore ==
    [][ call'.op = "check_balance" =>
          LET id == session[call'.s].account_id
              rows == store'.transactions
              row == rows[Len(rows)]
          IN  /\ store'.accounts = store.accounts
              /\ Len(rows) = Len(store.transactions) + 1
              /\ IsPrefix(store.transactions, rows)
              /\ row.account_id = id
              /\ row.action = "Balance Check"
              /\ row.amount = Null
              /\ row.source_or_reason = Null
              /\ row.balance_after = StoredBalance(store, id)
              /\ session'[call'.s].balance = StoredBalance(store', id) ]_vars

C7_Witness ==
    /\ call.op = "check_balance"
    /\ call.before # session[call.s].balance
    /\ store.transactions[Len(store.transactions)].action = "Balance Check"

\* C8: in the committed store the balance update and the row of a deposit or
\* withdraw are both present or both absent, and a call that raised has not
\* moved the cached balance.
C8_AllOrNothing ==
    /\ \A i \in DOMAIN store.accounts :
          store.accounts[i].balance =
              SignedSum(SelectTransactions(store, store.accounts[i].account_id))
    /\ call.result = "raised" => session[call.s].balance = call.before

\* C9: a committed transaction row keeps every field and its place, and
\* transaction_ids grow strictly along the table.
C9_AppendOnly ==
    [][ /\ IsPrefix(store.transactions, store'.transactions)
        /\ \A i \in 1 .. Len(store'.transactions) - 1 :
              store'.transactions[i].transaction_id
                  < store'.transactions[i + 1].transaction_id ]_vars

C9_Witness ==
    /\ call.op = "get_transaction_history"
    /\ Len(store.transactions) >= 2
    /\ Len(store.accounts) = 2

\* C10: with two sessions on one account, the stored balance equals the sum
\* of the signed amounts of the account's Deposit and Withdrawal rows.
C10_NoLostUpdate ==
    \A i \in DOMAIN store.accounts :
        store.accounts[i].balance =
            SignedSum(SelectTransactions(store, store.accounts[i].account_id))

\* The stored balance and the balance_after of every row are >= 0.
NeverNegative ==
    /\ \A i \in DOMAIN store.accounts : store.accounts[i].balance >= 0
    /\ \A i \in DOMAIN store.transactions : store.transactions[i].balance_after >= 0

\* C11 as stated: balances are never negative, and a withdraw of exactly the
\* stored balance returns True and leaves the stored balance at 0.
C11_ExactWithdrawalSucceeds ==
    /\ [] NeverNegative
    /\ [][ ( /\ call'.op = "withdraw"
             /\ call'.amount = StoredBalance(store, session[call'.s].account_id) )
           => ( /\ call'.result = "True"
                /\ StoredBalance(store', session[call'.s].account_id) = 0 ) ]_vars

\* C11 amended: balances are never negative, and a withdraw of exactly the
\* stored balance, when that balance is positive, returns True and leaves the
\* stored balance at 0 (at balance 0 the amount 0 is refused as invalid).
C11_PositiveExactWithdrawalSucceeds ==
    /\ [] NeverNegative
    /\ [][ ( /\ call'.op = "withdraw"
             /\ call'.amount > 0
             /\ call'.amount = StoredBalance(store, session[call'.s].account_id) )
           => ( /\ call'.result = "True"
                /\ StoredBalance(store', session[call'.s].account_id) = 0 ) ]_vars

C11_Witness ==
    /\ call.op = "withdraw" /\ call.result = "True"
    /\ call.amount = call.before
    /\ call.before > 0
    /\ StoredBalance(store, session[call.s].account_id) = 0
    /\ store.transactions[Len(store.transactions)].balance_after = 0

====
